---- MODULE Spec2Model ----
(***************************************************************************)
(* pokerparser: a record file is read (header row dropped), every record   *)
(* carrying personal data is discarded, the remaining records are written  *)
(* back.  A Go string is modelled as a sequence of one-character strings,  *)
(* a genericrecord as [cells |-> <sequence of strings>].                   *)
(***************************************************************************)
EXTENDS Integers, Sequences, FiniteSets, TLC

VARIABLES
    inFile,      \* the file named by --file: [readable, data]
    outFile,     \* the file named by --output: [exists, writable, data]
    pc,          \* position of main's Action: start, check, loop, done;
                 \* idle when no run is going on
    readErr,     \* how ReadCSV ended: none, nil, err, panic
    records,     \* records returned by ReadCSV
    idx,         \* position of the range loop over records
    santitized,  \* the slice the loop appends to
    writeCalls,  \* the argument of every WriteCSV call made so far
    result,      \* how the Action ended: none, nil, err, panic
    rec,         \* the record a method is called on
    call,        \* the method called: none before the call, idle during a run
    outcome,     \* how the method ended: none, returned, panic
    retStr,      \* string returned by Actor / Action
    retBool,     \* value returned by ContainsPersonalData
    retTime      \* value returned by Timestamp

vars == <<inFile, outFile, pc, readErr, records, idx, santitized, writeCalls,
          result, rec, call, outcome, retStr, retBool, retTime>>

runVars == <<inFile, outFile, pc, readErr, records, idx, santitized, writeCalls,
             result>>

recVars == <<rec, call, outcome, retStr, retBool, retTime>>

----------------------------------------------------------------------------
\* Bounds of the model.

\* longest input file enumerated character by character
MaxFileLen == 4

\* most data rows (after the header) of a generated input file
MaxRows == 2

\* longest cell[0] enumerated character by character
MaxCellLen == 3

----------------------------------------------------------------------------
\* Characters and a few strings.

Comma == ","

Quote == "\""

NL == "\n"

CR == "\r"

SP == " "

AtSign == "@"

\* unicode.IsSpace on the characters the model uses
IsSpace(c) == c \in {SP, NL, CR, "\t"}

\* the only entry of personalDataKeys
YourHand == <<"Y", "o", "u", "r", " ", "h", "a", "n", "d">>

personalDataKeys == <<YourHand>>

----------------------------------------------------------------------------
\* package strings

RECURSIVE IndexFrom(_, _, _)
\* the scan of strings.Index, from 1-based position k; result is 0-based
IndexFrom(s, substr, k) ==
    IF k + Len(substr) - 1 > Len(s) THEN -1
    ELSE IF SubSeq(s, k, k + Len(substr) - 1) = substr THEN k - 1
    ELSE IndexFrom(s, substr, k + 1)

Index(s, substr) == IndexFrom(s, substr, 1)

Contains(s, substr) == Index(s, substr) >= 0

RECURSIVE Split(_, _)
\* strings.Split with a non-empty separator
Split(s, sep) ==
    LET i == Index(s, sep) IN
    IF i < 0 THEN <<s>>
    ELSE <<SubSeq(s, 1, i)>> \o Split(SubSeq(s, i + Len(sep) + 1, Len(s)), sep)

RECURSIVE TrimLeft(_, _)
TrimLeft(s, cutset) ==
    IF Len(s) > 0 /\ s[1] \in cutset THEN TrimLeft(Tail(s), cutset) ELSE s

RECURSIVE TrimRight(_, _)
TrimRight(s, cutset) ==
    IF Len(s) > 0 /\ s[Len(s)] \in cutset
    THEN TrimRight(SubSeq(s, 1, Len(s) - 1), cutset) ELSE s

\* strings.Trim: cutset is the set of characters of the Go cutset string
Trim(s, cutset) == TrimRight(TrimLeft(s, cutset), cutset)

----------------------------------------------------------------------------
\* time.Parse(time.RFC3339, s): layout 2006-01-02T15:04:05Z07:00

Digit == {"0", "1", "2", "3", "4", "5", "6", "7", "8", "9"}

DigitVal(c) ==
    CASE c = "0" -> 0 [] c = "1" -> 1 [] c = "2" -> 2 [] c = "3" -> 3
      [] c = "4" -> 4 [] c = "5" -> 5 [] c = "6" -> 6 [] c = "7" -> 7
      [] c = "8" -> 8 [] c = "9" -> 9

AllDigits(s, a, b) == \A i \in a..b : s[i] \in Digit

Num2(s, a) == 10 * DigitVal(s[a]) + DigitVal(s[a + 1])

Num4(s, a) == 100 * Num2(s, a) + Num2(s, a + 2)

IsLeap(y) == (y % 4 = 0) /\ ((y % 100 # 0) \/ (y % 400 = 0))

DaysIn(m, y) ==
    IF m = 2 THEN (IF IsLeap(y) THEN 29 ELSE 28)
    ELSE IF m \in {4, 6, 9, 11} THEN 30 ELSE 31

RECURSIVE FracEnd(_, _)
\* position after the run of digits starting at k
FracEnd(s, k) == IF k <= Len(s) /\ s[k] \in Digit THEN FracEnd(s, k + 1) ELSE k

\* [ok |-> FALSE] on a parse error, else the parsed fields
ParseRFC3339(s) ==
    LET bad == [ok |-> FALSE, t |-> <<>>]
        shape == /\ Len(s) >= 20
                 /\ AllDigits(s, 1, 4) /\ s[5] = "-"
                 /\ AllDigits(s, 6, 7) /\ s[8] = "-"
                 /\ AllDigits(s, 9, 10) /\ s[11] = "T"
                 /\ AllDigits(s, 12, 13) /\ s[14] = ":"
                 /\ AllDigits(s, 15, 16) /\ s[17] = ":"
                 /\ AllDigits(s, 18, 19)
    IN
    IF ~shape THEN bad
    ELSE
      LET y == Num4(s, 1)   mo == Num2(s, 6)   d == Num2(s, 9)
          h == Num2(s, 12)  mi == Num2(s, 15)  sec == Num2(s, 18)
          z == IF s[20] = "." THEN FracEnd(s, 21) ELSE 20
          fracOK == s[20] = "." => z > 21
          frac == IF s[20] = "." THEN SubSeq(s, 21, z - 1) ELSE <<>>
          rangeOK == /\ mo \in 1..12 /\ d \in 1..DaysIn(mo, y)
                     /\ h \in 0..23 /\ mi \in 0..59 /\ sec \in 0..59
          utc == z = Len(s) /\ s[z] = "Z"
          off == /\ Len(s) = z + 5
                 /\ s[z] \in {"+", "-"}
                 /\ AllDigits(s, z + 1, z + 2) /\ s[z + 3] = ":"
                 /\ AllDigits(s, z + 4, z + 5)
                 /\ Num2(s, z + 1) \in 0..23 /\ Num2(s, z + 4) \in 0..59
          offMin == IF utc THEN 0
                    ELSE (IF s[z] = "-" THEN -1 ELSE 1)
                         * (60 * Num2(s, z + 1) + Num2(s, z + 4))
      IN
      IF fracOK /\ rangeOK /\ (z <= Len(s)) /\ (utc \/ off)
      THEN [ok |-> TRUE, t |-> <<y, mo, d, h, mi, sec, frac, offMin>>]
      ELSE bad

----------------------------------------------------------------------------
\* Cell and Record

\* stringcell(cell): the conversion keeps the text
stringcell(s) == s

stringcell_String(s) == s

RECURSIVE KeyScan(_, _, _)
\* the loop over personalDataKeys
KeyScan(s, keys, k) ==
    IF k > Len(keys) THEN FALSE
    ELSE IF Contains(s, keys[k]) THEN TRUE
    ELSE KeyScan(s, keys, k + 1)

\* lower-case form of the letters the keys use
FoldCase(t) ==
    [i \in 1..Len(t) |->
        CASE t[i] = "Y" -> "y" [] t[i] = "H" -> "h" [] t[i] = "A" -> "a"
          [] t[i] = "N" -> "n" [] t[i] = "D" -> "d" [] t[i] = "O" -> "o"
          [] t[i] = "U" -> "u" [] t[i] = "R" -> "r" [] OTHER -> t[i]]

\* the cell check with the case of both texts folded
ContainsPersonalData_folded(s) ==
    \E j \in 1..Len(personalDataKeys) :
        Contains(FoldCase(s), FoldCase(personalDataKeys[j]))

stringcell_ContainsPersonalData(s) == KeyScan(s, personalDataKeys, 1)

NewRecord(raw) == [cells |-> [i \in 1..Len(raw) |-> stringcell(raw[i])]]

Cells(g) == g.cells

Raw(g) == [i \in 1..Len(g.cells) |-> stringcell_String(g.cells[i])]

RECURSIVE CellScan(_, _)
\* the loop over g.cells
CellScan(cells, k) ==
    IF k > Len(cells) THEN FALSE
    ELSE IF stringcell_ContainsPersonalData(cells[k]) THEN TRUE
    ELSE CellScan(cells, k + 1)

genericrecord_ContainsPersonalData(g) == CellScan(g.cells, 1)

\* a method ends by returning a value or in a panic
Returned(v) == [panic |-> FALSE, val |-> v]

Panicked == [panic |-> TRUE, val |-> <<>>]

\* Timestamp that hands back the zero time on a parse error
Timestamp_zero(g) ==
    IF Len(Cells(g)) < 2 THEN Panicked
    ELSE LET p == ParseRFC3339(stringcell_String(Cells(g)[2])) IN
         IF p.ok THEN Returned(p.t) ELSE Returned(<<1, 1, 1, 0, 0, 0, <<>>, 0>>)

genericrecord_Timestamp(g) ==
    IF Len(Cells(g)) < 2 THEN Panicked
    ELSE LET p == ParseRFC3339(stringcell_String(Cells(g)[2])) IN
         IF p.ok THEN Returned(p.t) ELSE Panicked

\* Actor that guards the empty record and returns the empty string
Actor_guarded(g) ==
    IF Len(Cells(g)) < 1 THEN Returned(<<>>)
    ELSE LET cell == Split(stringcell_String(Cells(g)[1]), <<AtSign>>)[1] IN
         Returned(Trim(Trim(cell, {Quote}), {SP}))

\* Actor that trims the spaces before the quotes
Actor_swapped(g) ==
    IF Len(Cells(g)) < 1 THEN Panicked
    ELSE LET cell == Split(stringcell_String(Cells(g)[1]), <<AtSign>>)[1] IN
         Returned(Trim(Trim(cell, {SP}), {Quote}))

genericrecord_Actor(g) ==
    IF Len(Cells(g)) < 1 THEN Panicked
    ELSE LET cell == Split(stringcell_String(Cells(g)[1]), <<AtSign>>)[1] IN
         Returned(Trim(Trim(cell, {Quote}), {SP}))

\* Action that takes the segment before the last one
Action_inner(g) ==
    IF Len(Cells(g)) < 1 THEN Panicked
    ELSE LET split == Split(stringcell_String(Cells(g)[1]), <<Quote>>) IN
         Returned(IF Len(split) > 1 THEN split[Len(split) - 1] ELSE split[1])

genericrecord_Action(g) ==
    IF Len(Cells(g)) < 1 THEN Panicked
    ELSE LET split == Split(stringcell_String(Cells(g)[1]), <<Quote>>) IN
         Returned(split[Len(split)])

----------------------------------------------------------------------------
\* Records the methods are called on.

Dig == <<"0", "1", "2", "3", "4", "5", "6", "7", "8", "9">>

D2(n) == <<Dig[((n \div 10) % 10) + 1], Dig[(n % 10) + 1]>>

D4(n) == D2(n \div 100) \o D2(n % 100)

\* the text of a date-time in the RFC 3339 layout
FormatTime(y, mo, d, sep, h, mi, sec, zone) ==
    D4(y) \o <<"-">> \o D2(mo) \o <<"-">> \o D2(d) \o <<sep>> \o
    D2(h) \o <<":">> \o D2(mi) \o <<":">> \o D2(sec) \o zone

ZoneZ == <<"Z">>

ZonePlus == <<"+", "0", "5", ":", "3", "0">>

ZoneFrac == <<".", "5", "Z">>

GoodZones == {ZoneZ, ZonePlus, ZoneFrac}

BadZones == {<<>>, <<"z">>, <<"+", "0", "5">>, <<".", "Z">>}

Years == {2023, 2024}

Months == {1, 2, 13}

Days == {0, 1, 29, 30}

Hours == {0, 23, 24}

\* fraction digits and offset in minutes a zone text stands for
ZoneValue(z) ==
    CASE z = ZoneZ -> <<<<>>, 0>>
      [] z = ZonePlus -> <<<<>>, 330>>
      [] z = ZoneFrac -> <<<<"5">>, 0>>

\* the date-times RFC 3339 allows among those the model writes, as
\* <<text, value>>
ValidTimePairs ==
    { <<FormatTime(c[1], c[2], c[3], "T", c[4], 0, 59, c[5]),
        <<c[1], c[2], c[3], c[4], 0, 59, ZoneValue(c[5])[1], ZoneValue(c[5])[2]>>>> :
        c \in { x \in Years \X Months \X Days \X Hours \X GoodZones :
                  /\ x[2] >= 1 /\ x[2] <= 12
                  /\ x[3] >= 1 /\ x[3] <= DaysIn(x[2], x[1])
                  /\ x[4] >= 0 /\ x[4] <= 23 } }

ValidTimes == { p[1] : p \in ValidTimePairs }

Times ==
    { FormatTime(y, mo, d, sep, h, 0, 59, z) :
        y \in Years, mo \in Months, d \in Days, sep \in {"T", SP},
        h \in Hours, z \in GoodZones \cup BadZones }
    \cup { <<>>, <<"n", "o", "w">>, FormatTime(2024, 1, 1, "T", 0, 60, 0, ZoneZ),
           FormatTime(2024, 1, 1, "T", 0, 0, 60, ZoneZ),
           SubSeq(FormatTime(2024, 1, 1, "T", 0, 0, 0, ZoneZ), 1, 10) }

RECURSIVE StringsUpTo(_, _)
\* every string over alphabet of length at most n
StringsUpTo(alphabet, n) ==
    IF n = 0 THEN {<<>>}
    ELSE LET shorter == StringsUpTo(alphabet, n - 1) IN
         shorter \cup { Append(s, c) : s \in shorter, c \in alphabet }

Spaces(n) == [i \in 1..n |-> SP]

Bob == <<"b", "o", "b">>

ExampleCom == <<"e", "x", "a", "m", "p", "l", "e", ".", "c", "o", "m">>

Raise == <<"r", "a", "i", "s", "e">>

Fold == <<"f", "o", "l", "d">>

\* cell[0] of the shape  name@domain "action"  with its name and action
Conventional ==
    { [cell   |-> Spaces(n) \o name \o <<AtSign>> \o dom \o <<SP, Quote>>
                  \o act \o <<Quote>>,
       name   |-> name,
       action |-> act] :
        n \in {0, 2}, name \in {Bob, <<"c">>}, dom \in {ExampleCom, <<"d">>},
        act \in {Raise, Fold} }

\* cell[0] = `  bob@example.com "raise"`
BobCell == Spaces(2) \o Bob \o <<AtSign>> \o ExampleCom \o <<SP, Quote>> \o Raise \o <<Quote>>

Cell0s ==
    StringsUpTo({Quote, SP, AtSign, "a"}, MaxCellLen)
    \cup { c.cell : c \in Conventional }
    \cup { <<Quote>> \o Bob \o <<SP, AtSign, SP, "x", Quote, SP>> \o Raise }

PlainText == <<"n", "o", " ", "d", "a", "t", "a">>

\* cell texts around the personal-data key
Payloads ==
    { <<>>, PlainText, YourHand, YourHand \o <<":", " ", "7", "7">>,
      <<"x">> \o YourHand, <<"Y">> \o YourHand, FoldCase(YourHand),
      <<"Y", "O", "U", "R", " ", "H", "A", "N", "D">>,
      <<"Y", "o", "u", "r", "h", "a", "n", "d">>,
      <<"Y", "o", "u", "r", " ", " ", "h", "a", "n", "d">>,
      SubSeq(YourHand, 1, 8), SubSeq(YourHand, 2, 9),
      <<"Y", "o", "u", "r", " ">> \o YourHand }

\* most cells of an enumerated payload record
MaxCells == 2

RECURSIVE SeqsUpTo(_, _)
\* every sequence over S of length at most n
SeqsUpTo(S, n) ==
    IF n = 0 THEN {<<>>}
    ELSE LET shorter == SeqsUpTo(S, n - 1) IN
         shorter \cup { Append(s, c) : s \in shorter, c \in S }

GoodTime == FormatTime(2024, 1, 1, "T", 0, 0, 59, ZoneZ)

TestRecords ==
    { NewRecord(raw) : raw \in
        SeqsUpTo(Payloads, MaxCells)
        \cup { <<c>> : c \in Cell0s \cup {GoodTime} }
        \cup { <<c, t>> : c \in {BobCell, <<>>}, t \in Times }
        \cup { <<c, GoodTime, p>> : c \in Cell0s, p \in {PlainText, YourHand} } }

----------------------------------------------------------------------------
\* encoding/csv and recordio

CsvError == [err |-> TRUE, records |-> <<>>]

FieldError == [err |-> TRUE, field |-> <<>>, next |-> 0, more |-> FALSE]

\* position of the first character of data, at or after pos, that is in
\* chars; Len(data) + 1 when there is none
FirstOf(data, pos, chars) ==
    LET hits == { k \in pos..Len(data) : data[k] \in chars } IN
    IF hits = {} THEN Len(data) + 1
    ELSE CHOOSE k \in hits : \A j \in hits : k <= j

RECURSIVE QuotedField(_, _, _)
\* the rest of a quoted field from pos, acc being its text so far: up to
\* the next quote, which a second quote makes part of the text, a comma or
\* the end of the line ends the field, and anything else is an error; so
\* is the end of the input before the closing quote.  Line ends inside the
\* quotes belong to the field.
QuotedField(data, pos, acc) ==
    LET q == FirstOf(data, pos, {Quote}) IN
    IF q > Len(data) THEN FieldError
    ELSE
        LET text == acc \o SubSeq(data, pos, q - 1) IN
        IF q = Len(data)
        THEN [err |-> FALSE, field |-> text, next |-> q + 1, more |-> FALSE]
        ELSE CASE data[q + 1] = Quote ->
                    QuotedField(data, q + 2, Append(text, Quote))
               [] data[q + 1] = Comma ->
                    [err |-> FALSE, field |-> text, next |-> q + 2, more |-> TRUE]
               [] data[q + 1] = NL ->
                    [err |-> FALSE, field |-> text, next |-> q + 2, more |-> FALSE]
               [] OTHER -> FieldError

\* an unquoted field from pos: up to the next comma or line end; a quote
\* inside it is an error
UnquotedField(data, pos) ==
    LET e == FirstOf(data, pos, {Comma, NL})
        text == SubSeq(data, pos, e - 1)
    IN IF \E i \in 1..Len(text) : text[i] = Quote THEN FieldError
       ELSE [err |-> FALSE, field |-> text, next |-> e + 1,
             more |-> (e <= Len(data) /\ data[e] = Comma)]

ParseField(data, pos) ==
    IF pos <= Len(data) /\ data[pos] = Quote
    THEN QuotedField(data, pos + 1, <<>>)
    ELSE UnquotedField(data, pos)

RECURSIVE ReadFields(_, _, _)
\* csv.Reader.readRecord: the fields of the record that starts at pos
ReadFields(data, pos, row) ==
    LET f == ParseField(data, pos) IN
    IF f.err THEN [err |-> TRUE, record |-> <<>>, next |-> 0]
    ELSE IF f.more THEN ReadFields(data, f.next, Append(row, f.field))
    ELSE [err |-> FALSE, record |-> Append(row, f.field), next |-> f.next]

RECURSIVE ReadRecords(_, _, _)
\* csv.Reader.ReadAll from pos, rows being the records read so far: blank
\* lines are skipped, and a record whose number of fields differs from the
\* first record's is an error (FieldsPerRecord = 0)
ReadRecords(data, pos, rows) ==
    IF pos > Len(data) THEN [err |-> FALSE, records |-> rows]
    ELSE IF data[pos] = NL THEN ReadRecords(data, pos + 1, rows)
    ELSE
        LET r == ReadFields(data, pos, <<>>) IN
        IF r.err THEN CsvError
        ELSE IF rows # <<>> /\ Len(r.record) # Len(rows[1]) THEN CsvError
        ELSE ReadRecords(data, r.next, Append(rows, r.record))

ReadAll(data) == ReadRecords(data, 1, <<>>)

\* ReadCSV that makes a record of every row, the first one included
ReadCSV_keepHeader(file) ==
    IF ~file.readable THEN [kind |-> "err", records |-> <<>>]
    ELSE LET raw == ReadAll(file.data) IN
         IF raw.err THEN [kind |-> "err", records |-> <<>>]
         ELSE [kind |-> "nil",
               records |-> [i \in 1..Len(raw.records) |-> NewRecord(raw.records[i])]]

\* kind is nil or err as returned, panic when rawRecords[1:] is out of range
ReadCSV(file) ==
    IF ~file.readable THEN [kind |-> "err", records |-> <<>>]
    ELSE LET raw == ReadAll(file.data) IN
         IF raw.err THEN [kind |-> "err", records |-> <<>>]
         ELSE IF Len(raw.records) < 1 THEN [kind |-> "panic", records |-> <<>>]
         ELSE [kind |-> "nil",
               records |-> [i \in 1..(Len(raw.records) - 1) |->
                               NewRecord(raw.records[i + 1])]]

\* csv.Writer.fieldNeedsQuotes
fieldNeedsQuotes(field) ==
    IF field = <<>> THEN FALSE
    ELSE IF field = <<"\\", ".">> THEN TRUE
    ELSE \/ \E i \in 1..Len(field) : field[i] \in {Comma, Quote, CR, NL}
         \/ IsSpace(field[1])

RECURSIVE EscapeQuotes(_)
\* the body of a quoted field: every quote doubled
EscapeQuotes(field) ==
    IF field = <<>> THEN <<>>
    ELSE (IF field[1] = Quote THEN <<Quote, Quote>> ELSE <<field[1]>>)
         \o EscapeQuotes(Tail(field))

WriteField(field) ==
    IF fieldNeedsQuotes(field) THEN <<Quote>> \o EscapeQuotes(field) \o <<Quote>>
    ELSE field

RECURSIVE JoinFields(_, _)
JoinFields(record, n) ==
    IF n > Len(record) THEN <<>>
    ELSE (IF n > 1 THEN <<Comma>> ELSE <<>>) \o WriteField(record[n])
         \o JoinFields(record, n + 1)

\* the characters csv.Writer.Write hands to its bufio.Writer for one record
WriterWrite(record) == JoinFields(record, 1) \o <<NL>>

RECURSIVE WriteRows(_, _)
\* the characters of the rows from the n-th on
WriteRows(rows, n) ==
    IF n > Len(rows) THEN <<>>
    ELSE WriterWrite(rows[n]) \o WriteRows(rows, n + 1)

\* size of the bufio.Writer inside csv.NewWriter
defaultBufSize == 4096

\* what has reached the underlying buffer of a bufio.Writer that was never
\* flushed: nothing while the text fits the buffer, whole buffers after that
Unflushed(text) ==
    IF Len(text) <= defaultBufSize THEN <<>>
    ELSE SubSeq(text, 1, ((Len(text) - 1) \div defaultBufSize) * defaultBufSize)

\* the new content of file, and the error, after WriteCSV(file, recs)
WriteCSV(file, recs) ==
    LET rows == [i \in 1..Len(recs) |-> Raw(recs[i])]
        bytes == Unflushed(WriteRows(rows, 1))
    IN IF file.writable
       THEN [kind |-> "nil", file |-> [file EXCEPT !.exists = TRUE, !.data = bytes]]
       ELSE [kind |-> "err", file |-> file]

----------------------------------------------------------------------------
\* Input and output files of a run.

Entry == <<"e", "n", "t", "r", "y">>

HeaderRow == <<Entry, <<"a", "t">>, <<"o", "r", "d", "e", "r">>>>

BetCell == <<"a", AtSign, "b", SP, Quote, "b", "e", "t", Quote>>

FoldCell == <<"c", AtSign, "d", SP, Quote>> \o Fold \o <<Quote>>

\* rows of three columns: with a hand, clean, clean with a malformed
\* timestamp, clean with a lower-case look-alike of the key
SampleRows ==
    { <<BetCell, FormatTime(2024, 1, 1, "T", 0, 0, 59, ZoneZ),
        YourHand \o <<":", SP, "7", "7">>>>,
      <<FoldCell, FormatTime(2024, 1, 1, "T", 23, 0, 59, ZoneZ), PlainText>>,
      <<BobCell, <<"n", "o", "w">>, PlainText>>,
      <<BobCell, FormatTime(2024, 2, 29, "T", 23, 0, 59, ZonePlus),
        FoldCase(YourHand)>> }

\* fields that exercise the quoting rules
QuotingFields == {<<>>, <<"a">>, <<Comma>>, <<Quote>>, <<SP>>, <<NL>>}

\* a row that is a lone empty field is a blank line, which csv skips
OneColumnRows == { <<f>> : f \in QuotingFields \ {<<>>} }

TwoColumnRows == { <<f, g>> : f \in {<<>>, <<"a">>}, g \in {<<>>, <<"a">>} }

\* every table of a header row and at most MaxRows data rows over rows
TablesOver(rows) == SeqsUpTo(rows, MaxRows + 1) \ {<<>>}

Tables ==
    { <<HeaderRow>> \o t : t \in SeqsUpTo(SampleRows, MaxRows) }
    \cup TablesOver(OneColumnRows) \cup TablesOver(TwoColumnRows)

\* the text of a table, with and without the newline after its last row
TextOf(table, finalNL) ==
    LET text == WriteRows(table, 1) IN
    IF finalNL THEN text ELSE SubSeq(text, 1, Len(text) - 1)

\* <<text, data rows>> of every well-formed file the model reads
WellFormedFiles ==
    { <<TextOf(t, nl), Tail(t)>> : t \in Tables, nl \in BOOLEAN }

InputFiles ==
    { [readable |-> TRUE, data |-> d] :
        d \in StringsUpTo({"a", Comma, NL, Quote}, MaxFileLen)
               \cup { w[1] : w \in WellFormedFiles } }
    \cup { [readable |-> FALSE, data |-> <<>>] }

OutputFiles ==
    { [exists |-> FALSE, writable |-> TRUE, data |-> <<>>],
      [exists |-> TRUE, writable |-> TRUE, data |-> <<"o", "l", "d", NL>>],
      [exists |-> TRUE, writable |-> FALSE, data |-> <<"o", "l", "d", NL>>] }

----------------------------------------------------------------------------
\* The program: a run of main's Action, or one method call on one record.

NoString == <<>>

NoTime == <<>>

InitMain ==
    /\ inFile \in InputFiles
    /\ outFile \in OutputFiles
    /\ pc = "start"
    /\ readErr = "none"
    /\ records = <<>>
    /\ idx = 0
    /\ santitized = <<>>
    /\ writeCalls = <<>>
    /\ result = "none"
    /\ rec = NewRecord(<<>>)
    /\ call = "idle"
    /\ outcome = "none"
    /\ retStr = NoString
    /\ retBool = FALSE
    /\ retTime = NoTime

InitRecord ==
    /\ rec \in TestRecords
    /\ call = "none"
    /\ outcome = "none"
    /\ retStr = NoString
    /\ retBool = FALSE
    /\ retTime = NoTime
    /\ inFile = [readable |-> FALSE, data |-> <<>>]
    /\ outFile = [exists |-> FALSE, writable |-> TRUE, data |-> <<>>]
    /\ pc = "idle"
    /\ readErr = "none"
    /\ records = <<>>
    /\ idx = 0
    /\ santitized = <<>>
    /\ writeCalls = <<>>
    /\ result = "none"

Init == InitMain \/ InitRecord

\* io.ReadCSV(filename) and the return on its error
DoRead ==
    /\ pc = "start"
    /\ LET r == ReadCSV(inFile) IN
         /\ readErr' = r.kind
         /\ records' = r.records
         /\ pc' = IF r.kind = "nil" THEN "check" ELSE "done"
         /\ result' = IF r.kind = "nil" THEN "none" ELSE r.kind
    /\ UNCHANGED <<inFile, outFile, idx, santitized, writeCalls>>
    /\ UNCHANGED recVars

\* the empty input falls through to the loop and the write
NoRecords_fallthrough ==
    /\ pc = "check"
    /\ Len(records) = 0
    /\ santitized' = <<>>
    /\ idx' = 1
    /\ pc' = "loop"
    /\ UNCHANGED <<inFile, outFile, readErr, records, writeCalls, result>>
    /\ UNCHANGED recVars

\* len(records) == 0: return nil
NoRecords ==
    /\ pc = "check"
    /\ Len(records) = 0
    /\ result' = "nil"
    /\ pc' = "done"
    /\ UNCHANGED <<inFile, outFile, readErr, records, idx, santitized, writeCalls>>
    /\ UNCHANGED recVars

\* santitized := make(...), and the loop is entered
BeginLoop ==
    /\ pc = "check"
    /\ Len(records) # 0
    /\ santitized' = <<>>
    /\ idx' = 1
    /\ pc' = "loop"
    /\ UNCHANGED <<inFile, outFile, readErr, records, writeCalls, result>>
    /\ UNCHANGED recVars

\* the loop body on a record with personal data: continue
Discard ==
    /\ pc = "loop"
    /\ idx <= Len(records)
    /\ genericrecord_ContainsPersonalData(records[idx])
    /\ idx' = idx + 1
    /\ UNCHANGED <<inFile, outFile, pc, readErr, records, santitized, writeCalls,
                   result>>
    /\ UNCHANGED recVars

\* the loop body putting the record in front of those kept so far
Keep_front ==
    /\ pc = "loop"
    /\ idx <= Len(records)
    /\ ~genericrecord_ContainsPersonalData(records[idx])
    /\ santitized' = <<records[idx]>> \o santitized
    /\ idx' = idx + 1
    /\ UNCHANGED <<inFile, outFile, pc, readErr, records, writeCalls, result>>
    /\ UNCHANGED recVars

\* the loop body on a record without personal data: append
Keep ==
    /\ pc = "loop"
    /\ idx <= Len(records)
    /\ ~genericrecord_ContainsPersonalData(records[idx])
    /\ santitized' = Append(santitized, records[idx])
    /\ idx' = idx + 1
    /\ UNCHANGED <<inFile, outFile, pc, readErr, records, writeCalls, result>>
    /\ UNCHANGED recVars

\* return io.WriteCSV(output, santitized)
DoWrite ==
    /\ pc = "loop"
    /\ idx > Len(records)
    /\ LET w == WriteCSV(outFile, santitized) IN
         /\ outFile' = w.file
         /\ result' = w.kind
    /\ writeCalls' = Append(writeCalls, santitized)
    /\ pc' = "done"
    /\ UNCHANGED <<inFile, readErr, records, idx, santitized>>
    /\ UNCHANGED recVars

CallContainsPersonalData ==
    /\ call = "none"
    /\ call' = "ContainsPersonalData"
    /\ outcome' = "returned"
    /\ retBool' = genericrecord_ContainsPersonalData(rec)
    /\ UNCHANGED <<rec, retStr, retTime>>
    /\ UNCHANGED runVars

CallTimestamp ==
    /\ call = "none"
    /\ call' = "Timestamp"
    /\ LET r == genericrecord_Timestamp(rec) IN
         /\ outcome' = IF r.panic THEN "panic" ELSE "returned"
         /\ retTime' = IF r.panic THEN NoTime ELSE r.val
    /\ UNCHANGED <<rec, retStr, retBool>>
    /\ UNCHANGED runVars

CallActor ==
    /\ call = "none"
    /\ call' = "Actor"
    /\ LET r == genericrecord_Actor(rec) IN
         /\ outcome' = IF r.panic THEN "panic" ELSE "returned"
         /\ retStr' = IF r.panic THEN NoString ELSE r.val
    /\ UNCHANGED <<rec, retBool, retTime>>
    /\ UNCHANGED runVars

CallAction ==
    /\ call = "none"
    /\ call' = "Action"
    /\ LET r == genericrecord_Action(rec) IN
         /\ outcome' = IF r.panic THEN "panic" ELSE "returned"
         /\ retStr' = IF r.panic THEN NoString ELSE r.val
    /\ UNCHANGED <<rec, retBool, retTime>>
    /\ UNCHANGED runVars

Next ==
    \/ DoRead
    \/ NoRecords
    \/ BeginLoop
    \/ Discard
    \/ Keep
    \/ DoWrite
    \/ CallContainsPersonalData
    \/ CallTimestamp
    \/ CallActor
    \/ CallAction

Spec == Init /\ [][Next]_vars

----------------------------------------------------------------------------
\* Properties of the record methods.

\* key occurs in s: some position carries the characters of key, one by one
OccursIn(key, s) ==
    \E k \in 1..Len(s) :
        /\ k + Len(key) - 1 <= Len(s)
        /\ \A i \in 1..Len(key) : s[k + i - 1] = key[i]

\* C6: ContainsPersonalData() of a record, of any number of cells, is true
\* exactly when some cell's raw text contains "Your hand" character for
\* character; case variants and trimmed variants do not count.
C6_PersonalDataIff ==
    call = "ContainsPersonalData" =>
        /\ outcome = "returned"
        /\ retBool = (\E i \in 1..Len(rec.cells) : OccursIn(YourHand, rec.cells[i]))

\* a two-cell record holding only the lower-case variant was judged clean
C6_Witness ==
    /\ call = "ContainsPersonalData"
    /\ Len(rec.cells) = 2
    /\ rec.cells[2] = FoldCase(YourHand)
    /\ retBool = FALSE

\* no cell of the record carries the key
IsClean(r) == \A i \in 1..Len(r.cells) : ~OccursIn(YourHand, r.cells[i])

\* cell[1] is missing or is not an RFC 3339 date-time
Malformed(r) == Len(r.cells) < 2 \/ r.cells[2] \notin ValidTimes

\* C7 (as stated): a run whose input contains a malformed record ends in a
\* fatal fault, and the malformed record is not handed to the writer.
C7_MalformedAborts ==
    (pc = "done" /\ \E i \in 1..Len(records) : Malformed(records[i])) =>
        /\ result = "panic"
        /\ writeCalls = <<>>

\* C7 (as amended): Timestamp() on a malformed record ends in a panic and
\* returns no timestamp, and on a well-formed one returns the date-time the
\* text denotes; the run calls no Timestamp(), never faults on a malformed
\* record and hands every malformed record without personal data to the
\* writer.
C7_OnlyTimestampFaults ==
    /\ call = "Timestamp" =>
          IF Malformed(rec)
          THEN /\ outcome = "panic"
               /\ retTime = NoTime
          ELSE /\ outcome = "returned"
               /\ <<rec.cells[2], retTime>> \in ValidTimePairs
    /\ (pc = "done" /\ readErr = "nil" /\ records # <<>>) =>
          /\ result \in {"nil", "err"}
          /\ Len(writeCalls) = 1
          /\ \A i \in 1..Len(records) :
                (Malformed(records[i]) /\ IsClean(records[i])) =>
                    \E j \in 1..Len(writeCalls[1]) : writeCalls[1][j] = records[i]

\* a run ended with success after handing a record with the timestamp
\* "now" to the writer
C7_Witness ==
    /\ pc = "done"
    /\ result = "nil"
    /\ Len(writeCalls) = 1
    /\ \E j \in 1..Len(writeCalls[1]) :
          /\ Len(writeCalls[1][j].cells) >= 2
          /\ writeCalls[1][j].cells[2] = <<"n", "o", "w">>

\* C9 (as stated): on a record with fewer than 2 cells each of Actor(),
\* Action() and Timestamp() faults.
C9_AllFaultBelowTwo ==
    (Len(rec.cells) < 2 /\ call \in {"Actor", "Action", "Timestamp"})
        => outcome = "panic"

\* C9 (as amended): on a record with no cells each of Actor(), Action() and
\* Timestamp() faults; on a record with exactly one cell Timestamp() faults
\* while Actor() and Action() return a value.
C9_FaultsByArity ==
    /\ (Len(rec.cells) = 0 /\ call \in {"Actor", "Action", "Timestamp"})
          => outcome = "panic"
    /\ (Len(rec.cells) = 1 /\ call = "Timestamp") => outcome = "panic"
    /\ (Len(rec.cells) = 1 /\ call \in {"Actor", "Action"})
          => outcome = "returned"

\* Actor() was called on a record of one cell and returned
C9_Witness ==
    /\ Len(rec.cells) = 1
    /\ call = "Actor"
    /\ outcome = "returned"
    /\ retStr = <<"a">>

\* the part of s before its first @, the whole of s when it has none
BeforeAt(s) ==
    LET n == CHOOSE n \in 0..Len(s) :
                 /\ \A i \in 1..n : s[i] # AtSign
                 /\ (n = Len(s) \/ s[n + 1] = AtSign)
    IN SubSeq(s, 1, n)

\* s without the longest prefix and suffix made of characters of chars
Stripped(s, chars) ==
    LET i == CHOOSE i \in 1..(Len(s) + 1) :
                 /\ \A k \in 1..(i - 1) : s[k] \in chars
                 /\ (i = Len(s) + 1 \/ s[i] \notin chars)
        j == CHOOSE j \in (i - 1)..Len(s) :
                 /\ \A k \in (j + 1)..Len(s) : s[k] \in chars
                 /\ (j = i - 1 \/ s[j] \notin chars)
    IN SubSeq(s, i, j)

EdgeFree(s, chars) == s = <<>> \/ (s[1] \notin chars /\ s[Len(s)] \notin chars)

\* C10 (as stated): Actor() is the part of cell[0] before the first @ with
\* all surrounding quotes and spaces stripped, so it never begins or ends
\* with a quote or a space.
C10_ActorStripsAll ==
    (call = "Actor" /\ Len(rec.cells) >= 1) =>
        /\ outcome = "returned"
        /\ retStr = Stripped(BeforeAt(rec.cells[1]), {Quote, SP})
        /\ EdgeFree(retStr, {Quote, SP})

\* C10 (as amended): Actor() is the part of cell[0] before the first @ with
\* the surrounding quotes stripped first and the surrounding spaces of what
\* is left stripped next; it never begins or ends with a space.
C10_ActorStripsInOrder ==
    (call = "Actor" /\ Len(rec.cells) >= 1) =>
        /\ outcome = "returned"
        /\ retStr = Stripped(Stripped(BeforeAt(rec.cells[1]), {Quote}), {SP})
        /\ EdgeFree(retStr, {SP})

\* Actor() was called on a cell whose name has a space outside its quotes
C10_Witness ==
    /\ call = "Actor"
    /\ Len(rec.cells) >= 1
    /\ rec.cells[1] = <<SP, Quote, "a">>
    /\ retStr = <<Quote, "a">>

\* C5 (as stated): on a cell[0] of the shape  name@domain "action"  Actor()
\* is name and Action() is action.
C5_ActorAndAction ==
    \A c \in Conventional :
        (Len(rec.cells) >= 1 /\ rec.cells[1] = c.cell) =>
            /\ call = "Actor" => (outcome = "returned" /\ retStr = c.name)
            /\ call = "Action" => (outcome = "returned" /\ retStr = c.action)

\* C5 (as amended): on a cell[0] of the shape  name@domain "action"  Actor()
\* is name and Action() is the text after the last quote, the empty string.
C5_ActorAndTrailingText ==
    \A c \in Conventional :
        (Len(rec.cells) >= 1 /\ rec.cells[1] = c.cell) =>
            /\ call = "Actor" => (outcome = "returned" /\ retStr = c.name)
            /\ call = "Action" => (outcome = "returned" /\ retStr = <<>>)

\* Action() was called on the cell  `  bob@example.com "raise"`
C5_Witness ==
    /\ Len(rec.cells) >= 1
    /\ rec.cells[1] = BobCell
    /\ call = "Action"
    /\ outcome = "returned"

----------------------------------------------------------------------------
\* Properties of a run.

\* the records without personal data, in the order of records
CleanOf(recs) == SelectSeq(recs, IsClean)

RawRows(recs) == [i \in 1..Len(recs) |-> Raw(recs[i])]

\* C1: when a run over a non-empty sequence of records ends with success,
\* the output file holds exactly the CSV rows of the records without
\* personal data, in input order, without a header row.
C1_OutputIsSanitizedCsv ==
    (pc = "done" /\ result = "nil" /\ records # <<>>) =>
        /\ outFile.exists
        /\ outFile.data = WriteRows(RawRows(CleanOf(records)), 1)

\* C2: for a non-empty input sequence, what the loop hands to WriteCSV is
\* exactly the subsequence of the input records without personal data,
\* unaltered and in input order, and it is handed over once.
C2_HandedIsCleanSubsequence ==
    /\ writeCalls # <<>> => writeCalls = <<CleanOf(records)>>
    /\ (pc = "done" /\ readErr = "nil" /\ records # <<>>) => writeCalls # <<>>

\* of two records read, the first was discarded and the second handed over
C2_Witness ==
    /\ pc = "done"
    /\ Len(records) = 2
    /\ ~IsClean(records[1])
    /\ writeCalls = <<<<records[2]>>>>

WellFormedTexts == { w[1] : w \in WellFormedFiles }

\* C3: on a readable well-formed file of a header row and rows R1..Rn,
\* ReadCSV returns without error exactly n records, the i-th with Raw()
\* equal to the fields of Ri; the header is no record.
C3_ReadReturnsDataRows ==
    (pc \notin {"start", "idle"} /\ inFile.readable
        /\ inFile.data \in WellFormedTexts) =>
        /\ readErr = "nil"
        /\ <<inFile.data, RawRows(records)>> \in WellFormedFiles

\* a file of a three-column header and two rows was read into two records
C3_Witness ==
    /\ pc = "check"
    /\ inFile.data \in WellFormedTexts
    /\ Len(records) = 2
    /\ Len(records[1].cells) = 3
    /\ Raw(records[1]) # HeaderRow

\* C4: when ReadCSV returns an empty sequence of records, WriteCSV is never
\* called, the output path is left as it was, and the run ends with nil.
C4_EmptyInputNoWrite ==
    (pc \notin {"start", "idle"} /\ readErr = "nil" /\ records = <<>>) =>
        /\ writeCalls = <<>>
        /\ outFile \in OutputFiles
        /\ pc = "done" => result = "nil"

\* a header-only file was read, and the run ended with the old output
\* file in place
C4_Witness ==
    /\ pc = "done"
    /\ readErr = "nil"
    /\ records = <<>>
    /\ result = "nil"
    /\ outFile.exists
    /\ outFile.data # <<>>

\* C8: on every file ReadCSV either returns records with a nil error or
\* returns an error with no records; it never faults.
C8_ReadReturnsOrErrs ==
    pc \notin {"start", "idle"} =>
        /\ readErr \in {"nil", "err"}
        /\ readErr = "err" => records = <<>>

====
